---- MODULE Spec2Model ----
(***************************************************************************)
(* grammy-questions: the Question builder (question.ts), the process-wide  *)
(* QuestionsMap with clearQuestions and checkContext (helpers.ts), and the *)
(* middleware that installs ctx.ask / ctx.cancelQuestions (middleware.ts). *)
(*                                                                         *)
(* JavaScript objects are modelled by identity: a Question is an id whose  *)
(* builder fields are in conf and whose two public mutable fields are in   *)
(* implementedDoBefore / implementedHandler; an array handed to ctx.ask is *)
(* an id whose elements are in arrays, because QuestionsMap stores the     *)
(* caller's array and clearQuestions shifts it in place.                   *)
(*                                                                         *)
(* User callbacks are arbitrary functions: what a callback returns, or     *)
(* whether it throws, or whether the answer handler calls ctx.ask or       *)
(* ctx.cancelQuestions, is chosen afresh at every invocation.              *)
(***************************************************************************)
EXTENDS Integers, Sequences, FiniteSets, TLC

VARIABLES
  QuestionsMap,         \* helpers.ts: key -> array id, or NoEntry
  arrays,               \* array id -> the Questions it holds, in order
  conf,                 \* Question id -> its private builder fields
  implementedDoBefore,  \* Question id -> BOOLEAN
  implementedHandler,   \* Question id -> Nat
  options,              \* the QuestionsOptions given to questions(options)
  scenario,             \* the environment: the chats in play, whether callbacks throw
  doBeforeCalls,        \* history: invocations of each Question's doBefore (2: more than one)
  handlerCalls,         \* history: invocations of each Question's handler
  asked,                \* history: times each Question was stored by ctx.ask (2: more than one)
  last,                 \* observation of the operation that ran last, with the
                        \* length of the queue pending under its key before it
  inflight              \* the calls of checkContext suspended at await handler(ctx)

vars == <<QuestionsMap, arrays, conf, implementedDoBefore, implementedHandler,
          options, scenario, doBeforeCalls, handlerCalls, asked, last,
          inflight>>

----------------------------------------------------------------------------
(* Bounds and universes *)

MaxRepeat == 2      \* largest n given to repeat(n)
MaxAnswers == MaxRepeat + 1   \* answers explored, over both Questions
MaxList == 2        \* longest array given to ctx.ask

Questions == {"q1", "q2"}
Keys == {"k1", "k2"}
ArrayIds == {"a1", "a2", "a3"}
Kinds == {"text", "photo"}
Texts == {"/cancel", "hi"}

NoEntry == "none"
Undefined == "undefined"
NoQuestion == "none"

Events == [kind : Kinds, text : Texts]

Min(a, b) == IF a < b THEN a ELSE b

----------------------------------------------------------------------------
(* question.ts: the builder.  A function-valued field is modelled by       *)
(* whether it is set.                                                      *)

\* _repeater: undefined, a number, or the string "infinity".
NoRepeater == [is |-> "undefined", n |-> 0]

Infinity == [is |-> "infinity", n |-> 0]

NewQuestion(query) ==
  [query |-> query, handler |-> FALSE, doBefore |-> FALSE,
   repeater |-> NoRepeater, cancelFunc |-> FALSE, cancelRepeater |-> FALSE,
   filter |-> FALSE]

thenDo(c, func) == [c EXCEPT !.handler = func]

doBefore(c, func) == [c EXCEPT !.doBefore = func]

repeat(c, n) == [c EXCEPT !.repeater = [is |-> "number", n |-> n]]

filter(c) == [c EXCEPT !.filter = TRUE]

cancel(c) == [c EXCEPT !.cancelFunc = TRUE]

repeatUntil(c) == [c EXCEPT !.repeater = Infinity, !.cancelRepeater = TRUE]

----------------------------------------------------------------------------
(* The mutable heap threaded through one operation.  m, a, db, ih are the  *)
(* program's QuestionsMap, arrays, implementedDoBefore, implementedHandler;*)
(* dbc, hc, asked are the histories.  The rest observes the operation:     *)
(* calls lists the user callbacks it invoked, in order, each with what the *)
(* callback returned ("true", "false", "ok") or "throw"; inner is the call *)
(* of ctx.ask or ctx.cancelQuestions made by the operation or by its       *)
(* answer handler, with arg the argument ctx.ask was given (an array or    *)
(* one Question); nexts counts calls of next(); out names                  *)
(* the return statement reached; fault is TRUE when an exception left the  *)
(* operation; ret is the value returned by ctx.cancelQuestions().          *)

\* What ctx.ask is given: one Question (q), or an array (items).
NoArgument == [is |-> "none", q |-> NoQuestion, items |-> <<>>]

Array(items) == [is |-> "array", q |-> NoQuestion, items |-> items]

NoInner == [op |-> "none", list |-> <<>>, arg |-> NoArgument]

Start ==
  [m |-> QuestionsMap, a |-> arrays, db |-> implementedDoBefore,
   ih |-> implementedHandler, dbc |-> doBeforeCalls, hc |-> handlerCalls,
   asked |-> asked, calls |-> <<>>, inner |-> NoInner, nexts |-> 0,
   out |-> "", fault |-> FALSE, ret |-> FALSE]

Call(S, cb, q, r) ==
  [S EXCEPT !.calls = Append(@, [cb |-> cb, q |-> q, r |-> r])]

Bool(b) == IF b THEN "true" ELSE "false"

Return(S, out) == [S EXCEPT !.out = out]

Throw(S) == [S EXCEPT !.out = "throw", !.fault = TRUE]

\* A continuation that would be called twice.
next_twice(S) == [S EXCEPT !.nexts = @ + 2]

\* next(): the rest of the host middleware chain.
next(S) == [S EXCEPT !.nexts = @ + 1]

\* Map.prototype.set / delete on QuestionsMap.
MapSet(S, key, a) == [S EXCEPT !.m[key] = a]

MapDelete(S, key) == [S EXCEPT !.m[key] = NoEntry, !.ret = (S.m[key] # NoEntry)]

\* Array.prototype.shift: removes the first element in place; no-op when empty.
shift(S, a) == [S EXCEPT !.a[a] = IF @ = <<>> THEN <<>> ELSE Tail(@)]

Count(list, q) == Cardinality({i \in 1..Len(list) : list[i] = q})

\* An array literal built by the caller: the least id no key refers to.
ArrayOrder == <<"a1", "a2", "a3">>

FreeIds(S, held) ==
  {i \in 1..Len(ArrayOrder) :
     /\ ArrayOrder[i] \notin held
     /\ \A k \in Keys : S.m[k] # ArrayOrder[i]}

NewArrayId(S, held) ==
  ArrayOrder[CHOOSE i \in FreeIds(S, held) : \A j \in FreeIds(S, held) : i <= j]

----------------------------------------------------------------------------
(* helpers.ts *)

\* A retirement that would drop the whole entry.
clearQuestions_all(S, questions, key) == MapDelete(S, key)

clearQuestions(S, questions, key) ==
  IF Len(S.a[questions]) = 1
    THEN MapDelete(S, key)
    ELSE MapSet(shift(S, questions), key, questions)

\* An ask that would leave every doBefore to the first answer.
askRunsDoBefore_never(S, firstQuestion) == FALSE

\* middleware.ts: ctx.ask runs the first Question's doBefore when it has one.
askRunsDoBefore(S, firstQuestion) == conf[firstQuestion].doBefore

\* An ask that would keep a list that is already pending.
ask_keep(S, key, list, behaviour) ==
  IF S.m[key] # NoEntry THEN S ELSE MapSet(S, key, list)

\* An ask that would store the array before it runs the first doBefore.
ask_eager(S, key, list, behaviour) ==
  IF S.a[list] = <<>>
    THEN Throw(S)
    ELSE
      LET firstQuestion == S.a[list][1]
          S0 == [MapSet(S, key, list) EXCEPT
                   !.asked = [q \in Questions |->
                                Min(2, S.asked[q] + Count(S.a[list], q))]]
          S1 == [Call(S0, "doBefore", firstQuestion, behaviour) EXCEPT
                   !.dbc[firstQuestion] = @ + 1]
      IN IF ~askRunsDoBefore(S, firstQuestion) THEN S0
         ELSE IF behaviour = "throw" THEN Throw(S1)
         ELSE [S1 EXCEPT !.db[firstQuestion] = TRUE]

\* An ask that would store the array without reading its first element.
ask_unchecked(S, key, list, behaviour) == MapSet(S, key, list)

(* middleware.ts: ctx.ask.  list is the array stored; behaviour is what    *)
(* the first Question's doBefore does ("ok" or "throw").                   *)
ask(S, key, list, behaviour) ==
  IF S.a[list] = <<>>
    THEN Throw(S)    \* list[0] is undefined: firstQuestion.get throws
    ELSE
      LET firstQuestion == S.a[list][1]
          stored(T) ==
            [MapSet(T, key, list) EXCEPT
               !.asked = [q \in Questions |->
                            Min(2, T.asked[q] + Count(T.a[list], q))]]
      IN IF askRunsDoBefore(S, firstQuestion)
           THEN LET S1 == [Call(S, "doBefore", firstQuestion, behaviour) EXCEPT
                             !.dbc[firstQuestion] = @ + 1]
                IN IF behaviour = "throw"
                     THEN Throw(S1)
                     ELSE stored([S1 EXCEPT !.db[firstQuestion] = TRUE])
           ELSE stored(S)

\* A cancel that would delete the entry and report nothing.
cancelQuestions_mute(S, key) == [S EXCEPT !.m[key] = NoEntry]

\* middleware.ts: ctx.cancelQuestions.
cancelQuestions(S, key) == MapDelete(S, key)

\* A matcher test that every update would pass.
has_any(ev, query) == TRUE

\* grammY's ctx.has(query): the update matches one of the filter queries.
has(ev, query) == ev.kind \in query

\* grammY's ctx.hasText(trigger) for a string trigger.
hasText(ev, trigger) == ev.text = trigger

\* A rule that would fire on the hears match alone.
cancelCondition_hearsOnly(ev, filterResult) ==
  options.hears # Undefined /\ hasText(ev, options.hears)

(* helpers.ts checkContext, lines 26-30: the condition under which the     *)
(* global cancel rule fires once ctx.has(options.cancel.has) holds.        *)
(* filterResult is what options.cancel.filter returns if it is called.     *)
cancelCondition(ev, filterResult) ==
  \/ (options.hears # Undefined /\ hasText(ev, options.hears))
  \/ (options.filter /\ filterResult)
  \/ (options.hears = Undefined /\ ~options.filter)

\* options.cancel.filter is called only when the hears disjunct is false.
cancelFilterCalled(ev) ==
  /\ ~(options.hears # Undefined /\ hasText(ev, options.hears))
  /\ options.filter

\* helpers.ts line 43: question.get("repeater") ?? 1
times(c) ==
  IF c.repeater = NoRepeater THEN [is |-> "number", n |-> 1] ELSE c.repeater

\* A retirement test that would ignore the "infinity" mode.
reached_always(count, t) == count >= t.n

\* A retirement test that would need one answer more.
reached_late(count, t) == t # Infinity /\ count > t.n

\* helpers.ts line 70: times !== "infinity" && question.implementedHandler >= times
reached(count, t) == t # Infinity /\ count >= t.n

\* A cancel that would drop the head Question only.
cancelByQuestion_head(S, questions, key) == clearQuestions(S, questions, key)

\* A Question's cancel that would retire the head only.
cancelByQuestion_shift(S, questions, key) == clearQuestions(S, questions, key)

\* helpers.ts lines 50-52: the Question's cancel function returned true.
cancelByQuestion(S, questions, key) == MapDelete(S, key)

\* helpers.ts lines 54-56: the repeatUntil function returned true.
untilByQuestion(c, result) == c.cancelRepeater /\ result

\* A filter whose result would be ignored.
filterRejects_never(c, result) == FALSE

\* helpers.ts line 58: !(filter ? await filter(ctx) : true)
filterRejects(c, result) == ~(IF c.filter THEN result ELSE TRUE)

\* A handler whose exception would cost the key its entry.
runHandler_dropping(S, key, questions, h) ==
  IF h.do = "throw" THEN Throw(MapDelete(S, key)) ELSE S

(* The answer handler's body: it returns, throws, or calls ctx.ask with a  *)
(* new array, or ctx.cancelQuestions, and then returns.                    *)
runHandler(S, key, questions, h) ==
  CASE h.do = "ok" -> S
    [] h.do = "throw" -> Throw(S)
    [] h.do = "cancel" ->
         cancelQuestions([S EXCEPT !.inner = [NoInner EXCEPT !.op = "cancel"]], key)
    [] h.do = "ask" ->
         LET id == NewArrayId(S, {questions})
         IN ask([S EXCEPT !.a[id] = h.list,
                          !.inner = [op |-> "ask", list |-> h.list,
                                     arg |-> Array(h.list)]],
                key, id, "ok")

\* A head that would be the Question registered last.
head_last(S, questions) == S.a[questions][Len(S.a[questions])]

\* helpers.ts lines 39-40: questions[0]
head(S, questions) == S.a[questions][1]

\* A missing handler that would be skipped silently.
handlerMissing_skipped(c) == FALSE

\* helpers.ts line 67: await handler(ctx) with handler undefined is a TypeError.
handlerMissing(c) == ~c.handler

\* A doBefore that would run only when the Question is first of an ask.
doBeforeDue_never(S, question) == FALSE

\* helpers.ts line 62: !question.implementedDoBefore && doBefore
doBeforeDue(S, question) == ~S.db[question] /\ conf[question].doBefore

(* helpers.ts checkContext, lines 40-74: the head Question's branch.       *)
answerQuestion(S, key, questions, cb) ==
  LET question == head(S, questions)
      c == conf[question]
      S1 == IF c.cancelFunc
              THEN Call(S, "cancelFunc", question, Bool(cb.cancelFunc)) ELSE S
      S2 == IF c.cancelRepeater
              THEN Call(S1, "cancelRepeater", question, Bool(cb.cancelRepeater))
              ELSE S1
      S3 == IF c.filter THEN Call(S2, "filter", question, Bool(cb.filter)) ELSE S2
      runsDoBefore == doBeforeDue(S3, question)
      S4 == IF runsDoBefore
              THEN [Call(S3, "doBefore", question, cb.doBefore) EXCEPT
                      !.dbc[question] = @ + 1]
              ELSE S3
      S5 == IF runsDoBefore THEN [S4 EXCEPT !.db[question] = TRUE] ELSE S4
      S6 == [Call(S5, "handler", question,
                  IF cb.handler.do = "throw" THEN "throw" ELSE "ok") EXCEPT
               !.hc[question] = @ + 1]
      S7 == runHandler(S6, key, questions, cb.handler)
      S8 == [S7 EXCEPT !.ih[question] = @ + 1]
  IN IF c.cancelFunc /\ cb.cancelFunc
       THEN Return(cancelByQuestion(S1, questions, key), "qcancel")
     ELSE IF untilByQuestion(c, cb.cancelRepeater)
       THEN Return(clearQuestions(S2, questions, key), "until")
     ELSE IF filterRejects(c, cb.filter)
       THEN Return(next(S3), "filtered")
     ELSE IF runsDoBefore /\ cb.doBefore = "throw"
       THEN Throw(S4)
     ELSE IF handlerMissing(c)
       THEN Throw(S5)    \* handler is undefined: calling it throws
     ELSE IF S7.fault
       THEN S7
     ELSE IF reached(S8.ih[question], times(c))
       THEN Return(clearQuestions(S8, questions, key), "retired")
     ELSE Return(S8, "answered")

\* A global cancel that would delete the entry after onCancel returned.
globalCancel_late(S, key, behaviour) ==
  IF options.onCancel /\ behaviour = "throw"
    THEN Throw(Call(S, "onCancel", NoQuestion, behaviour))
    ELSE Return(MapDelete(IF options.onCancel
                            THEN Call(S, "onCancel", NoQuestion, behaviour)
                            ELSE S, key), "gcancel")

\* A global cancel that would call onCancel and keep the entry.
globalCancel_keep(S, key, behaviour) ==
  Return(IF options.onCancel
           THEN Call(S, "onCancel", NoQuestion, behaviour) ELSE S, "gcancel")

\* helpers.ts lines 32-36: the global cancel rule fired.
globalCancel(S, key, behaviour) ==
  LET S1 == MapDelete(S, key)
      S2 == IF options.onCancel
              THEN Call(S1, "onCancel", NoQuestion, behaviour) ELSE S1
  IN IF options.onCancel /\ behaviour = "throw"
       THEN Throw(S2)
       ELSE Return(S2, "gcancel")

\* A checkContext that would apply the global cancel rule to keys without
\* entry as well.
checkContext_cancelAlways(S, key, ev, cb) ==
  IF options.cancel /\ has(ev, options.has) /\ cancelCondition(ev, cb.gfilter)
    THEN globalCancel(S, key, cb.onCancel)
    ELSE Return(next(S), "pass")

\* A checkContext that would test the head Question's query first and
\* consider the global cancel rule for matching updates only.
checkContext_headFirst(S, key, ev, cb) ==
  LET questions == S.m[key]
      inCancel == options.cancel /\ has(ev, options.has)
      S1 == IF inCancel /\ cancelFilterCalled(ev)
              THEN Call(S, "cancel.filter", NoQuestion, Bool(cb.gfilter)) ELSE S
  IN IF questions = NoEntry THEN Return(next(S), "pass")
     ELSE IF S.a[questions] = <<>> THEN Throw(S)
     ELSE IF ~has(ev, conf[head(S, questions)].query) THEN Return(next(S), "pass")
     ELSE IF inCancel /\ cancelCondition(ev, cb.gfilter)
       THEN globalCancel(S1, key, cb.onCancel)
     ELSE answerQuestion(S1, key, questions, cb)

(* helpers.ts checkContext. *)
checkContext(S, key, ev, cb) ==
  LET questions == S.m[key]
      inCancel == questions # NoEntry /\ options.cancel /\ has(ev, options.has)
      S1 == IF inCancel /\ cancelFilterCalled(ev)
              THEN Call(S, "cancel.filter", NoQuestion, Bool(cb.gfilter)) ELSE S
  IN IF inCancel /\ cancelCondition(ev, cb.gfilter)
       THEN globalCancel(S1, key, cb.onCancel)
     ELSE IF questions = NoEntry
       THEN Return(next(S1), "pass")
     ELSE IF S1.a[questions] = <<>>
       THEN Throw(S1)    \* questions[0] is undefined
     ELSE IF has(ev, conf[head(S1, questions)].query)
       THEN answerQuestion(S1, key, questions, cb)
     ELSE Return(next(S1), "pass")

----------------------------------------------------------------------------
(* Inputs *)

\* The arrays a caller can build: up to MaxList Questions, repeats allowed.
Contents == UNION {[1..n -> Questions] : n \in 0..MaxList}

\* Questions as callers configure them, each written as its builder chain.
Prompted == thenDo(doBefore(NewQuestion({"text"}), TRUE), TRUE)

Repeated == repeat(filter(Prompted), MaxRepeat)

Until == cancel(repeatUntil(thenDo(NewQuestion({"text", "photo"}), TRUE)))

Catalog == <<Prompted, Repeated, Until>>

\* repeatUntil(f) and then repeat(n); repeat(n) and then repeatUntil(f);
\* a Question on which thenDo was never called.
Mixed == repeat(repeatUntil(thenDo(NewQuestion({"text"}), TRUE)), MaxRepeat)

Remixed == repeatUntil(repeat(thenDo(NewQuestion({"text"}), TRUE), MaxRepeat))

Bare == filter(doBefore(NewQuestion({"text"}), TRUE))

Chains == <<Mixed, Remixed, Bare>>

\* A Question with a handler and nothing else, for text and for photos.
Single == thenDo(NewQuestion({"text", "photo"}), TRUE)

\* A Question with a handler and a repeat count, nothing else.
Counted == repeat(thenDo(NewQuestion({"text"}), TRUE), MaxRepeat)

\* The two Questions are configured differently and are interchangeable:
\* one order of each pair of catalog entries is enough.
Configured(catalog) ==
  {[q \in Questions |-> catalog[IF q = "q1" THEN p[1] ELSE p[2]]] :
     p \in {x \in (1..Len(catalog)) \X (1..Len(catalog)) : x[1] < x[2]}}

\* globalFilter is the top-level filter of QuestionsOptions: Undefined, or
\* what the configured function returns ("rejects": falsy, "admits": truthy).
NoOptions ==
  [cancel |-> FALSE, has |-> {}, hears |-> Undefined, filter |-> FALSE,
   onCancel |-> FALSE, globalFilter |-> Undefined]

\* questions({cancel: {has, hears?, filter?, onCancel}})
CancelOptions ==
  [cancel : {TRUE}, has : {{"text"}}, hears : {Undefined, "/cancel"},
   filter : BOOLEAN, onCancel : {TRUE}, globalFilter : {Undefined}]

\* questions({filter}) with a function of constant result.
FilterOptions ==
  {[NoOptions EXCEPT !.globalFilter = r] : r \in {"rejects", "admits"}}

OptionsSet == {NoOptions} \cup CancelOptions \cup FilterOptions

\* What a caller gives to ctx.ask: an array, or one Question.
Arguments ==
  {Array(c) : c \in Contents}
    \cup [is : {"question"}, q : Questions, items : {<<>>}]

\* middleware.ts line 62: Array.isArray(questions) ? questions : [questions]
asList(questions) ==
  IF questions.is = "array" THEN questions.items ELSE <<questions.q>>

\* The arrays an answer handler gives to ctx.ask: [q], [q, q'].
Literals == {c \in Contents : c # <<>> /\ Len(c) <= 2}

\* What the callbacks of one event do, restricted to the callbacks that exist.
HandlerBehaviours ==
  [do : {"ok", "throw", "cancel"}, list : {<<>>}]
    \cup [do : {"ask"}, list : Literals]

HeadOf(key) ==
  IF QuestionsMap[key] # NoEntry /\ arrays[QuestionsMap[key]] # <<>>
    THEN arrays[QuestionsMap[key]][1]
    ELSE NoQuestion

Behaviours(key) ==
  LET hd == HeadOf(key)
      pending == hd # NoQuestion
      c == IF pending THEN conf[hd] ELSE NewQuestion({})
      gc == QuestionsMap[key] # NoEntry /\ options.cancel
      Outcomes(cb) ==
        IF cb \in scenario.throws THEN {"ok", "throw"} ELSE {"ok"}
      quiet == [gfilter |-> FALSE, onCancel |-> "ok", cancelFunc |-> FALSE,
                cancelRepeater |-> FALSE, filter |-> TRUE, doBefore |-> "ok",
                handler |-> [do |-> "ok", list |-> <<>>]]
  IN \* the global cancel rule's callbacks
     {[quiet EXCEPT !.gfilter = g, !.onCancel = o] :
        g \in IF gc /\ options.filter THEN {TRUE} ELSE {},
        o \in IF gc /\ options.onCancel THEN Outcomes("onCancel") ELSE {"ok"}}
     \cup {[quiet EXCEPT !.onCancel = o] :
             o \in IF gc /\ options.onCancel
                      THEN Outcomes("onCancel") \ {"ok"} ELSE {}}
     \* the head Question's predicates, each ending the processing
     \cup (IF c.cancelFunc THEN {[quiet EXCEPT !.cancelFunc = TRUE]} ELSE {})
     \cup (IF c.cancelRepeater THEN {[quiet EXCEPT !.cancelRepeater = TRUE]} ELSE {})
     \cup (IF c.cancelFunc /\ c.cancelRepeater
             THEN {[quiet EXCEPT !.cancelFunc = TRUE, !.cancelRepeater = TRUE]}
             ELSE {})
     \cup (IF c.filter THEN {[quiet EXCEPT !.filter = FALSE]} ELSE {})
     \* the answer: doBefore, then the handler
     \cup {[quiet EXCEPT !.doBefore = d, !.handler = h] :
             d \in IF c.doBefore /\ ~implementedDoBefore[hd]
                     THEN Outcomes("doBefore") ELSE {"ok"},
             h \in IF c.handler
                     THEN {x \in HandlerBehaviours :
                             x.do = "throw" => "handler" \in scenario.throws}
                     ELSE {[do |-> "ok", list |-> <<>>]}}

\* The updates that can arrive: the text is read by ctx.hasText only.
Updates ==
  IF options.hears = Undefined THEN [kind : Kinds, text : {"hi"}] ELSE Events

NoEvent == [kind |-> "none", text |-> "none"]

----------------------------------------------------------------------------
(* Calls of checkContext that overlap *)

\* The calls of the middleware that can be suspended at the same time.
Slots == {"e1", "e2"}

NoFrame == [key |-> "none", questions |-> NoEntry, question |-> NoQuestion]

\* The registry and the Question fields, as one value.
Snapshot(S) ==
  [m |-> S.m, a |-> S.a, db |-> S.db, ih |-> S.ih, dbc |-> S.dbc, hc |-> S.hc]

NoBase ==
  [m |-> [k \in Keys |-> NoEntry], a |-> [a \in ArrayIds |-> <<>>],
   db |-> [q \in Questions |-> FALSE], ih |-> [q \in Questions |-> 0],
   dbc |-> [q \in Questions |-> 0], hc |-> [q \in Questions |-> 0]]

\* frames: the suspended calls; base: the registry and fields when the first
\* of them began; evs: the updates whose processing began since.
Idle == [frames |-> [e \in Slots |-> NoFrame], base |-> NoBase, evs |-> <<>>]

NoneInFlight == \A e \in Slots : inflight.frames[e] = NoFrame

\* Callbacks that decide nothing: no cancel, no repeatUntil, a filter that
\* admits, a handler that returns.
Quiet ==
  [gfilter |-> FALSE, onCancel |-> "ok", cancelFunc |-> FALSE,
   cancelRepeater |-> FALSE, filter |-> TRUE, doBefore |-> "ok",
   handler |-> [do |-> "ok", list |-> <<>>]]

\* helpers.ts lines 68-74: what checkContext does once await handler(ctx)
\* has returned, with the questions and question it read before the await.
afterHandler(S, key, questions, question) ==
  LET S8 == [S EXCEPT !.ih[question] = @ + 1]
  IN IF reached(S8.ih[question], times(conf[question]))
       THEN Return(clearQuestions(S8, questions, key), "retired")
       ELSE Return(S8, "answered")

----------------------------------------------------------------------------
(* The state machine *)

InitWith(confs, opts, scen) ==
  /\ conf \in confs
  /\ options \in opts
  /\ scenario = scen
  /\ QuestionsMap = [k \in Keys |-> NoEntry]
  /\ arrays = [a \in ArrayIds |-> <<>>]
  /\ implementedDoBefore = [q \in Questions |-> FALSE]
  /\ implementedHandler = [q \in Questions |-> 0]
  /\ doBeforeCalls = [q \in Questions |-> 0]
  /\ handlerCalls = [q \in Questions |-> 0]
  /\ asked = [q \in Questions |-> 0]
  /\ inflight = Idle
  /\ last = [op |-> "init", key |-> "none", ev |-> NoEvent, len |-> 0,
             out |-> "",
             fault |-> FALSE, calls |-> <<>>, inner |-> NoInner, nexts |-> 0,
             ret |-> FALSE]

\* The Questions pending under key, in order; empty when key has no entry.
Queue(key) ==
  IF QuestionsMap[key] = NoEntry THEN <<>> ELSE arrays[QuestionsMap[key]]

\* An array no key refers to any more is out of the program's reach.
\* A suspended call of checkContext keeps the array it read in reach.
CollectWith(S, frames) ==
  [a \in ArrayIds |->
     IF \/ \E k \in Keys : S.m[k] = a
        \/ \E e \in Slots : frames[e].questions = a
       THEN S.a[a] ELSE <<>>]

Collect(S) == CollectWith(S, inflight.frames)

\* The answers counted so far, over both Questions.
Total(counts) == counts["q1"] + counts["q2"]

Commit(result, op, key, ev) ==
  \E S \in {result} :
  /\ Total(S.ih) <= MaxAnswers
  /\ Total(S.hc) <= MaxAnswers
  /\ QuestionsMap' = S.m
  /\ arrays' = Collect(S)
  /\ implementedDoBefore' = S.db
  /\ implementedHandler' = S.ih
  /\ doBeforeCalls' = [q \in Questions |-> Min(2, S.dbc[q])]
  /\ handlerCalls' = S.hc
  /\ asked' = S.asked
  /\ last' = [op |-> op, key |-> key, ev |-> ev, len |-> Len(Queue(key)),
              out |-> S.out,
              fault |-> S.fault, calls |-> S.calls, inner |-> S.inner,
              nexts |-> S.nexts, ret |-> S.ret]
  /\ UNCHANGED <<conf, options, scenario, inflight>>

\* ctx.ask(question) or ctx.ask([...]) with an array built for the call.
Ask(key, questions, behaviour) ==
  LET id == NewArrayId(Start, {})
      content == asList(questions)
      S == ask([Start EXCEPT !.a[id] = content,
                             !.inner = [op |-> "ask", list |-> content,
                                        arg |-> questions]],
               key, id, behaviour)
  IN Commit(Return(S, IF S.fault THEN "throw" ELSE "asked"), "ask", key, NoEvent)

\* ctx.ask(array) with the very array that is pending under some key.
AskPending(key, other, behaviour) ==
  /\ QuestionsMap[other] # NoEntry
  /\ LET S == ask([Start EXCEPT !.inner = [op |-> "ask", list |-> Queue(other),
                                           arg |-> Array(Queue(other))]],
                  key, QuestionsMap[other], behaviour)
     IN Commit(Return(S, IF S.fault THEN "throw" ELSE "asked"), "ask", key, NoEvent)

\* ctx.cancelQuestions() outside the processing of an event.
CancelQuestions(key) ==
  Commit(Return(cancelQuestions(Start, key), "cancelled"), "cancelQuestions",
         key, NoEvent)

\* The middleware function for one update: checkContext(ctx, key, next, options).
Middleware(key, ev, cb) ==
  Commit(checkContext(Start, key, ev, cb), "event", key, ev)

AskBehaviours(q) ==
  IF q # NoQuestion /\ conf[q].doBefore /\ "doBefore" \in scenario.throws
    THEN {"ok", "throw"} ELSE {"ok"}

First(content) == IF content = <<>> THEN NoQuestion ELSE content[1]

Next ==
  \/ \E key \in scenario.keys, questions \in Arguments :
       \E behaviour \in AskBehaviours(First(asList(questions))) :
         Ask(key, questions, behaviour)
  \/ \E key \in scenario.keys, other \in scenario.keys :
       \E behaviour \in AskBehaviours(HeadOf(other)) :
         AskPending(key, other, behaviour)
  \/ \E key \in scenario.keys : CancelQuestions(key)
  \/ \E key \in scenario.keys, ev \in Updates :
       \E cb \in Behaviours(key) : Middleware(key, ev, cb)

\* One chat, no global cancel rule, callbacks that do not throw.
Init ==
  InitWith(Configured(Catalog), {NoOptions},
           [keys |-> {"k1"}, throws |-> {}])

Spec == Init /\ [][Next]_vars

\* One chat, a global cancel rule of every shape, callbacks that do not throw.
InitCancel ==
  InitWith(Configured(<<Prompted, Until>>), CancelOptions,
           [keys |-> {"k1"}, throws |-> {}])

SpecCancel == InitCancel /\ [][Next]_vars

\* One chat, a global filter, callbacks that do not throw.
InitFilter ==
  InitWith(Configured(<<Prompted, Until>>), FilterOptions,
           [keys |-> {"k1"}, throws |-> {}])

SpecFilter == InitFilter /\ [][Next]_vars

\* One chat, Questions built by other chains of builder calls.
InitBuilder ==
  InitWith(Configured(Chains), {NoOptions},
           [keys |-> {"k1"}, throws |-> {}])

SpecBuilder == InitBuilder /\ [][Next]_vars

\* One chat, no global cancel rule, answer handlers that may throw.
InitFaults ==
  InitWith(Configured(<<Prompted, Until>>), {NoOptions},
           [keys |-> {"k1"}, throws |-> {"handler"}])

SpecFaults == InitFaults /\ [][Next]_vars

\* One chat, a global cancel rule on "/cancel" whose onCancel may throw.
InitCancelFaults ==
  InitWith(Configured(<<Prompted, Until>>),
           {o \in CancelOptions : o.hears = "/cancel" /\ ~o.filter},
           [keys |-> {"k1"}, throws |-> {"onCancel"}])

SpecCancelFaults == InitCancelFaults /\ [][Next]_vars

\* One chat, a global cancel rule on photos decided by its filter, and a
\* Question that asks for text.
PhotoOptions ==
  {[o EXCEPT !.has = {"photo"}] :
     o \in {x \in CancelOptions : x.hears = Undefined /\ x.filter}}

InitPrecedence ==
  InitWith(Configured(<<Repeated, Until>>), PhotoOptions,
           [keys |-> {"k1"}, throws |-> {}])

SpecPrecedence == InitPrecedence /\ [][Next]_vars

\* checkContext for one update, up to await handler(ctx): lines 25-67.  The
\* call is suspended there with the array and the Question it read.
Suspend(key, ev) ==
  LET R == checkContext(Start, key, ev, Quiet)
      free == {e \in Slots : inflight.frames[e] = NoFrame}
      e == CHOOSE x \in free : \A y \in free : x = "e1" \/ y # "e1"
  IN /\ free # {}
     /\ R.out \in {"answered", "retired"}
     /\ Total(R.hc) <= MaxAnswers
     /\ implementedDoBefore' = R.db
     /\ doBeforeCalls' = [q \in Questions |-> Min(2, R.dbc[q])]
     /\ handlerCalls' = R.hc
     /\ inflight' =
          [frames |-> [inflight.frames EXCEPT
                         ![e] = [key |-> key, questions |-> QuestionsMap[key],
                                 question |-> HeadOf(key)]],
           base |-> IF NoneInFlight THEN Snapshot(Start) ELSE inflight.base,
           evs |-> IF NoneInFlight THEN <<ev>> ELSE Append(inflight.evs, ev)]
     /\ last' = [op |-> "suspend", key |-> key, ev |-> ev,
                 len |-> Len(Queue(key)), out |-> "", fault |-> FALSE,
                 calls |-> R.calls, inner |-> NoInner, nexts |-> 0,
                 ret |-> FALSE]
     /\ UNCHANGED <<QuestionsMap, arrays, implementedHandler, asked, conf,
                    options, scenario>>

\* await handler(ctx) returns in the call e: lines 68-74.
Resume(e) ==
  LET f == inflight.frames[e]
      S == afterHandler(Start, f.key, f.questions, f.question)
      frames == [inflight.frames EXCEPT ![e] = NoFrame]
  IN /\ f # NoFrame
     /\ QuestionsMap' = S.m
     /\ arrays' = CollectWith(S, frames)
     /\ implementedHandler' = S.ih
     /\ inflight' = [inflight EXCEPT !.frames = frames]
     /\ last' = [op |-> "resume", key |-> f.key, ev |-> NoEvent,
                 len |-> Len(Queue(f.key)), out |-> S.out, fault |-> FALSE,
                 calls |-> <<>>, inner |-> NoInner, nexts |-> 0, ret |-> S.ret]
     /\ UNCHANGED <<implementedDoBefore, doBeforeCalls, handlerCalls, asked,
                    conf, options, scenario>>

\* One chat, no global cancel rule, doBefore callbacks that may throw.
InitAskFaults ==
  InitWith(Configured(<<Prompted, Until>>), {NoOptions},
           [keys |-> {"k1"}, throws |-> {"doBefore"}])

SpecAskFaults == InitAskFaults /\ [][Next]_vars

\* Two chats, which can be given the same array, and no global cancel rule.
InitShared ==
  InitWith({[q \in Questions |-> IF q = "q1" THEN Single ELSE Counted]},
           {NoOptions}, [keys |-> Keys, throws |-> {}])

SpecShared == InitShared /\ [][Next]_vars

\* The first ctx.ask of the program, with an array of distinct Questions or
\* with one Question.
AskOnce(key, questions) ==
  /\ last.op = "init"
  /\ asList(questions) # <<>>
  /\ \A q \in Questions : Count(asList(questions), q) <= 1
  /\ Ask(key, questions, "ok")

\* An update whose callbacks neither throw nor call ctx.ask or
\* ctx.cancelQuestions.
Deliver(key, ev) ==
  \E cb \in {b \in Behaviours(key) : b.handler.do = "ok"} :
    Middleware(key, ev, cb)

\* An update that matches the query of the head Question of key.
DeliverMatching(key) ==
  \E ev \in Updates :
    /\ HeadOf(key) # NoQuestion
    /\ has(ev, conf[HeadOf(key)].query)
    /\ Deliver(key, ev)

NextDrain ==
  \/ \E key \in scenario.keys, questions \in Arguments : AskOnce(key, questions)
  \/ \E key \in scenario.keys, ev \in Updates : Deliver(key, ev)

\* One chat, one ctx.ask, Questions with a finite repeat count and neither
\* filter nor cancel function: built by thenDo and repeat alone, or by
\* repeatUntil and then repeat.
InitDrain ==
  InitWith({[q \in Questions |-> IF q = "q1" THEN b ELSE c] :
              b \in {Prompted, Single}, c \in {Counted, Mixed}},
           {NoOptions}, [keys |-> {"k1"}, throws |-> {}])

\* Updates that match the head keep arriving while a head is pending.
SpecDrain ==
  /\ InitDrain /\ [][NextDrain]_vars
  /\ \A key \in Keys : WF_vars(DeliverMatching(key))

\* ctx.ask while no update is being processed; updates whose processing is
\* suspended at the handler and resumed in any order.
NextOverlap ==
  \/ \E key \in scenario.keys, questions \in Arguments :
       NoneInFlight /\ Ask(key, questions, "ok")
  \/ \E key \in scenario.keys, ev \in Updates : Suspend(key, ev)
  \/ \E e \in Slots : Resume(e)

\* One chat, no global cancel rule, up to two updates in process at a time.
InitOverlap ==
  InitWith(Configured(<<Prompted, Repeated>>), {NoOptions},
           [keys |-> {"k1"}, throws |-> {}])

SpecOverlap == InitOverlap /\ [][NextOverlap]_vars

----------------------------------------------------------------------------
(* Vocabulary of the properties *)

Finite(q) == times(conf[q]) # Infinity

RepeatCount(q) == times(conf[q]).n

IsHead(q) == \E k \in Keys : HeadOf(k) = q

Invoked(l, cb, q) ==
  \E i \in 1..Len(l.calls) : l.calls[i].cb = cb /\ l.calls[i].q = q

Returned(l, cb, q, r) ==
  \E i \in 1..Len(l.calls) :
    l.calls[i].cb = cb /\ l.calls[i].q = q /\ l.calls[i].r = r

InvokedAny(l, cbs) ==
  \E i \in 1..Len(l.calls) : l.calls[i].cb \in cbs

\* ctx.ask stored q exactly once, and every call of its handler returned.
AskedOnce(q) == asked[q] = 1 /\ handlerCalls[q] = implementedHandler[q]

\* The queue of the operation's key after the operation.
QueueAfter == Queue(last.key)

\* A step that retires the head of key: the queue after it is the queue
\* before it without its first Question, and no entry if that was the only one.
HeadRemoved(key) ==
  IF Len(Queue(key)) <= 1
    THEN QuestionsMap'[key] = NoEntry
    ELSE QuestionsMap'[key] # NoEntry /\ Queue(key)' = Tail(Queue(key))

----------------------------------------------------------------------------
\* The handler of a finite Question asked once is called at most n times, and
\* the Question is no longer head once it was called n times.
C1_Counted ==
  \A q \in Questions :
    Finite(q) /\ AskedOnce(q) =>
      /\ handlerCalls[q] <= RepeatCount(q)
      /\ IsHead(q) => handlerCalls[q] < RepeatCount(q)

\* An answering event calls the handler once; the n-th call retires the head.
C1_Answer ==
  \A q \in Questions :
    (Finite(q) /\ AskedOnce(q) /\ last.op = "event" /\ Invoked(last, "handler", q))' =>
      /\ handlerCalls'[q] = handlerCalls[q] + 1
      /\ (handlerCalls'[q] = RepeatCount(q)) <=> (last'.out = "retired")
      /\ (last'.out = "retired") =>
           \A k \in Keys : k = last'.key => HeadRemoved(k)

C2_CountBounded ==
  \A q \in Questions :
    Finite(q) =>
      /\ implementedHandler[q] <= RepeatCount(q)
      /\ implementedHandler[q] >= RepeatCount(q) => ~IsHead(q)

(* C3: the doBefore of a Question instance is invoked at most once over    *)
(* the instance's lifetime, also when the instance is given to ctx.ask     *)
(* again as the first Question.                                            *)
C3_DoBeforeOnce == \A q \in Questions : doBeforeCalls[q] <= 1

(* C4: when the head Question's answer handler calls ctx.cancelQuestions() *)
(* while its event is processed, the key has no entry once the processing  *)
(* of that event completes.                                                *)
C4_CancelInsideHandler ==
  [][(last.op = "event" /\ last.inner.op = "cancel" /\ ~last.fault)' =>
       \A k \in Keys : k = last'.key => QuestionsMap'[k] = NoEntry]_vars

(* C5: after ctx.ask(L) for a key, also when called from inside the answer *)
(* handler of the pending head Question, the entry of the key when the     *)
(* operation completes is exactly L, in its order.                         *)
C5_LastRegistrationWins ==
  [][(last.op \in {"ask", "event"} /\ last.inner.op = "ask" /\ ~last.fault)' =>
       \A k \in Keys : k = last'.key =>
         QuestionsMap'[k] # NoEntry /\ Queue(k)' = last'.inner.list]_vars

\* What one event does to the pending head q of key k in infinite mode.
C6_Event(q, k) ==
  /\ last'.out # "retired"
  /\ Returned(last', "cancelRepeater", q, "true") =>
       /\ ~Invoked(last', "handler", q)
       /\ implementedHandler'[q] = implementedHandler[q]
       /\ last'.out = "until"
       /\ HeadRemoved(k)
  /\ (Returned(last', "cancelRepeater", q, "false")
        /\ ~Returned(last', "filter", q, "false")) =>
       /\ Invoked(last', "handler", q)
       /\ implementedHandler'[q] = implementedHandler[q] + 1
       /\ last'.inner.op = "none" => (HeadOf(k) = q)'
  /\ (Queue(k)' # Queue(k) /\ last'.inner.op = "none") =>
       \/ Returned(last', "cancelRepeater", q, "true")
       \/ last'.out \in {"qcancel", "gcancel"}

C7_FilterFalse ==
  [][(last.op = "event" /\ \E q \in Questions : Returned(last, "filter", q, "false"))' =>
       /\ UNCHANGED <<QuestionsMap, arrays, implementedDoBefore, implementedHandler>>
       /\ ~InvokedAny(last', {"doBefore", "handler"})
       /\ last'.nexts = 1 /\ ~last'.fault]_vars

C7_Witness ==
  \E q \in Questions :
    /\ last.op = "event" /\ Returned(last, "filter", q, "false")
    /\ HeadOf(last.key) = q /\ implementedHandler[q] = 1
    /\ last.nexts = 1

(* C8: when the head Question's cancel function returns true, the whole    *)
(* entry of the key is deleted, with every Question queued behind the      *)
(* head, and no doBefore or handler of any Question is invoked.            *)
C8_QuestionCancel ==
  [][(last.op = "event" /\ \E q \in Questions : Returned(last, "cancelFunc", q, "true"))' =>
       /\ \A k \in Keys : k = last'.key => QuestionsMap'[k] = NoEntry
       /\ ~InvokedAny(last', {"doBefore", "handler"})]_vars

C8_Witness ==
  \E q \in Questions :
    /\ last.op = "event" /\ Returned(last, "cancelFunc", q, "true")
    /\ last.len = 2 /\ QuestionsMap[last.key] = NoEntry

----------------------------------------------------------------------------
(* The global cancel rule, checked under SpecCancel *)

\* The step processes an update for k while k has an entry, and the update
\* matches options.cancel.has.
CancelConsidered(k) ==
  /\ last'.op = "event" /\ last'.key = k
  /\ QuestionsMap[k] # NoEntry
  /\ options.cancel /\ has(last'.ev, options.has)

FilterSaid(l, r) == Returned(l, "cancel.filter", NoQuestion, r)

QuestionCallbacks == {"cancelFunc", "cancelRepeater", "filter", "doBefore", "handler"}

(* C9: when an entry is pending and the global cancel rule fires, no       *)
(* callback of the head Question is invoked, onCancel is invoked, the      *)
(* entry is deleted; and an update for a key without entry is passed on.   *)
C9_GlobalCancel ==
  [][\A k \in Keys :
       /\ (CancelConsidered(k)
             /\ cancelCondition(last'.ev, FilterSaid(last', "true"))) =>
            /\ ~InvokedAny(last', QuestionCallbacks)
            /\ Invoked(last', "onCancel", NoQuestion)
            /\ QuestionsMap'[k] = NoEntry
       /\ (last'.op = "event" /\ last'.key = k /\ QuestionsMap[k] = NoEntry) =>
            /\ last'.out = "pass" /\ last'.nexts = 1 /\ last'.calls = <<>>
            /\ QuestionsMap'[k] = NoEntry]_vars

C9_Witness ==
  /\ last.op = "event" /\ last.out = "gcancel" /\ last.len = 2
  /\ options.hears = "/cancel" /\ last.ev.text = "/cancel"
  /\ Invoked(last, "onCancel", NoQuestion)
  /\ QuestionsMap[last.key] = NoEntry

(* C10 as claimed: the cancel decision is the hears match alone if hears   *)
(* is configured, else the filter's result alone if filter is configured,  *)
(* else true.                                                              *)
C10_Precedence ==
  [][\A k \in Keys :
       CancelConsidered(k) =>
         ((last'.out = "gcancel") <=>
            IF options.hears # Undefined THEN hasText(last'.ev, options.hears)
            ELSE IF options.filter THEN FilterSaid(last', "true")
            ELSE TRUE)]_vars

(* C10 as amended: the rule fires if and only if hears is configured and   *)
(* matches the text, or filter is configured and returns true, or neither  *)
(* is configured; filter is called exactly when it is configured and the   *)
(* hears match did not already decide.                                     *)
C10_Disjunction ==
  [][\A k \in Keys :
       CancelConsidered(k) =>
         LET heard == options.hears # Undefined /\ hasText(last'.ev, options.hears)
         IN /\ (last'.out = "gcancel") <=>
                 \/ heard
                 \/ (options.filter /\ FilterSaid(last', "true"))
                 \/ (options.hears = Undefined /\ ~options.filter)
            /\ Invoked(last', "cancel.filter", NoQuestion) <=>
                 (options.filter /\ ~heard)]_vars

C10_Witness ==
  /\ last.op = "event" /\ last.out = "gcancel" /\ last.len > 0
  /\ options.hears = "/cancel" /\ options.filter
  /\ last.ev.text # "/cancel"
  /\ FilterSaid(last, "true")

----------------------------------------------------------------------------
(* The global filter of QuestionsOptions, checked under SpecFilter *)

(* C11: when the global filter is configured and evaluates false for an    *)
(* event, the event is passed through before any per-question logic: no    *)
(* callback of any Question is invoked, the registry is unchanged, and     *)
(* next() is called.                                                       *)
C11_AdmissionFilter ==
  [][(last'.op = "event" /\ options.globalFilter = "rejects") =>
       /\ last'.calls = <<>>
       /\ last'.out = "pass" /\ last'.nexts = 1
       /\ UNCHANGED <<QuestionsMap, arrays, implementedDoBefore,
                      implementedHandler>>]_vars

----------------------------------------------------------------------------
(* ctx.ask called outside the processing of an update, checked under Spec *)

\* Every callback the operation invoked is the doBefore of Question q.
OnlyDoBeforeOf(l, q) ==
  \A i \in 1..Len(l.calls) : l.calls[i].cb = "doBefore" /\ l.calls[i].q = q

\* No callback of Question q ran in the step, and its counters are unchanged.
Untouched(q) ==
  /\ ~\E i \in 1..Len(last'.calls) : last'.calls[i].q = q
  /\ implementedDoBefore'[q] = implementedDoBefore[q]
  /\ implementedHandler'[q] = implementedHandler[q]
  /\ handlerCalls'[q] = handlerCalls[q]
  /\ doBeforeCalls'[q] = doBeforeCalls[q]

(* C12: ctx.ask(L') for a key with a pending list L replaces the entry by  *)
(* L' and invokes no callback of a Question of L that is not in L'; the    *)
(* only callback it invokes is the doBefore of the first Question of L'.   *)
C12_AskReplaces ==
  [][\A k \in Keys :
       (last'.op = "ask" /\ last'.key = k /\ ~last'.fault
          /\ QuestionsMap[k] # NoEntry) =>
         /\ QuestionsMap'[k] # NoEntry /\ Queue(k)' = last'.inner.list
         /\ OnlyDoBeforeOf(last', First(last'.inner.list))
         /\ \A q \in Questions :
              (Count(Queue(k), q) > 0 /\ Count(last'.inner.list, q) = 0) =>
                Untouched(q)]_vars

C12_Witness ==
  /\ last.op = "ask" /\ ~last.fault /\ last.len = 2
  /\ last.inner.list = <<"q2">> /\ Queue(last.key) = <<"q2">>
  /\ asked["q1"] = 2 /\ asked["q2"] = 1
  /\ Len(last.calls) = 1

(* C13: when ctx.ask returns normally, the first Question's doBefore, if   *)
(* configured, was invoked exactly once by the call and its                *)
(* implementedDoBefore is true; no other doBefore was invoked; one         *)
(* Question given alone is stored as a one-element list; and the entry of  *)
(* the key is the given list in its order.                                 *)
C13_AskReturns ==
  [][\A k \in Keys :
       (last'.op = "ask" /\ last'.key = k /\ ~last'.fault) =>
         LET arg == last'.inner.arg
             list == IF arg.is = "question" THEN <<arg.q>> ELSE arg.items
             first == list[1]
         IN /\ QuestionsMap'[k] # NoEntry /\ Queue(k)' = list
            /\ IF conf[first].doBefore
                 THEN /\ last'.calls = <<[cb |-> "doBefore", q |-> first, r |-> "ok"]>>
                      /\ implementedDoBefore'[first]
                 ELSE last'.calls = <<>>
            /\ \A q \in Questions \ {first} : Untouched(q)]_vars

C13_Witness ==
  /\ last.op = "ask" /\ ~last.fault
  /\ last.inner.arg.is = "question" /\ last.inner.arg.q = "q1"
  /\ Queue(last.key) = <<"q1">>
  /\ last.calls = <<[cb |-> "doBefore", q |-> "q1", r |-> "ok"]>>
  /\ implementedDoBefore["q1"]

----------------------------------------------------------------------------
(* The doBefore of a Question queued behind the first, checked under Spec *)

\* Question q has a doBefore, was stored by one ask, and its doBefore has
\* not run: it was not the first Question of that ask.
Waiting(q) == conf[q].doBefore /\ asked[q] = 1 /\ doBeforeCalls[q] = 0

\* The operation ended by answering: its last two calls are q's doBefore
\* and then q's handler.
PromptedThenAnswered(l, q) ==
  /\ Len(l.calls) >= 2
  /\ l.calls[Len(l.calls) - 1] = [cb |-> "doBefore", q |-> q, r |-> "ok"]
  /\ l.calls[Len(l.calls)].cb = "handler" /\ l.calls[Len(l.calls)].q = q

\* The step processes an update without registering a list again.
Answering == last'.op = "event" /\ last'.inner.op # "ask"

----------------------------------------------------------------------------
(* ctx.cancelQuestions outside the processing of an update, checked under  *)
(* SpecCancel, where a global onCancel is configured                       *)

(* C15: ctx.cancelQuestions() called while no update of the key is being   *)
(* processed returns true if and only if the key had an entry, leaves the  *)
(* key without entry, and invokes no Question callback and no onCancel.    *)
C15_ManualCancel ==
  [][\A k \in Keys :
       (last'.op = "cancelQuestions" /\ last'.key = k) =>
         /\ last'.ret <=> (QuestionsMap[k] # NoEntry)
         /\ QuestionsMap'[k] = NoEntry
         /\ last'.calls = <<>> /\ ~last'.fault
         /\ UNCHANGED <<implementedDoBefore, implementedHandler,
                        doBeforeCalls, handlerCalls>>]_vars

C15_Witness ==
  /\ last.op = "cancelQuestions" /\ last.ret /\ last.len = 2
  /\ options.cancel /\ options.onCancel
  /\ QuestionsMap[last.key] = NoEntry /\ last.calls = <<>>

----------------------------------------------------------------------------
(* Other chains of builder calls, checked under SpecBuilder *)

(* C16: whatever the order of the calls of repeat(n) and repeatUntil(f) on *)
(* a Question, one rule retires it: a Question with a finite count is      *)
(* never retired by a repeatUntil function, and a Question in infinite     *)
(* mode is never retired by its count.                                     *)
C16_OneRetirementRule ==
  [][\A q \in Questions, k \in Keys :
       (HeadOf(k) = q /\ last'.op = "event" /\ last'.key = k) =>
         /\ Finite(q) => last'.out # "until"
         /\ ~Finite(q) => last'.out # "retired"]_vars

\* The update of the step gets as far as the call of q's handler.
ReachesAnswer(q) ==
  /\ has(last'.ev, conf[q].query)
  /\ ~Returned(last', "cancelFunc", q, "true")
  /\ ~Returned(last', "cancelRepeater", q, "true")
  /\ ~Returned(last', "filter", q, "false")
  /\ ~Returned(last', "doBefore", q, "throw")

(* C18: when a Question without handler reaches the answer step, the       *)
(* processing ends in a failure, implementedHandler is not incremented     *)
(* and the Question is not retired.                                        *)
C18_NoHandler ==
  [][\A q \in Questions, k \in Keys :
       (HeadOf(k) = q /\ ~conf[q].handler
          /\ last'.op = "event" /\ last'.key = k /\ ReachesAnswer(q)) =>
         /\ last'.fault
         /\ implementedHandler'[q] = implementedHandler[q]
         /\ handlerCalls'[q] = handlerCalls[q]
         /\ QuestionsMap'[k] = QuestionsMap[k] /\ Queue(k)' = Queue(k)]_vars

C18_Witness ==
  \E q \in Questions :
    /\ last.op = "event" /\ last.fault /\ last.len = 2
    /\ ~conf[q].handler /\ HeadOf(last.key) = q
    /\ Returned(last, "filter", q, "true") /\ implementedDoBefore[q]
    /\ implementedHandler[q] = 0 /\ Len(QueueAfter) = 2

----------------------------------------------------------------------------
(* Callbacks that throw, checked under SpecFaults and SpecCancelFaults *)

\* The operation was the processing of an update that q's handler ended by
\* throwing.
HandlerThrew(l, q) ==
  /\ l.op = "event" /\ l.fault /\ l.calls # <<>>
  /\ l.calls[Len(l.calls)] = [cb |-> "handler", q |-> q, r |-> "throw"]

(* C17: when the head Question's handler throws, the exception leaves the  *)
(* processing, implementedHandler is not incremented, the entry of the key *)
(* is unchanged with the same head, and the next update that reaches the   *)
(* answer invokes the same Question's handler again.                       *)
C17_HandlerThrows ==
  [][\A q \in Questions, k \in Keys :
       /\ (HeadOf(k) = q /\ last'.key = k /\ HandlerThrew(last', q)) =>
            /\ implementedHandler'[q] = implementedHandler[q]
            /\ QuestionsMap'[k] = QuestionsMap[k] /\ Queue(k)' = Queue(k)
            /\ (HeadOf(k) = q)'
       /\ (last.key = k /\ HandlerThrew(last, q)
             /\ last'.op = "event" /\ last'.key = k
             /\ ~Invoked(last', "onCancel", NoQuestion)
             /\ last'.out # "gcancel" /\ ReachesAnswer(q)) =>
            Invoked(last', "handler", q)]_vars

C17_Witness ==
  \E q \in Questions :
    /\ HandlerThrew(last, q) /\ last.len = 2
    /\ HeadOf(last.key) = q /\ Len(QueueAfter) = 2
    /\ handlerCalls[q] = 2 /\ implementedHandler[q] = 0

\* The step processes an update for k on which a cancellation is decided:
\* by the global rule, or by the head Question's cancel function.
CancelDecided(k) ==
  /\ last'.op = "event" /\ last'.key = k /\ QuestionsMap[k] # NoEntry
  /\ \/ /\ options.cancel /\ has(last'.ev, options.has)
        /\ cancelCondition(last'.ev, FilterSaid(last', "true"))
     \/ \E q \in Questions : Returned(last', "cancelFunc", q, "true")

(* C19: whenever a cancellation is decided for an update, by the global    *)
(* rule or by the head Question's cancel function, the key has no entry    *)
(* when the processing ends, also when it ends by an exception of          *)
(* onCancel: no part of the pending list is left.                          *)
C19_CancelIsWhole ==
  [][\A k \in Keys : CancelDecided(k) => QuestionsMap'[k] = NoEntry]_vars

C19_Witness ==
  /\ last.op = "event" /\ last.fault /\ last.len = 2
  /\ Returned(last, "onCancel", NoQuestion, "throw")
  /\ QuestionsMap[last.key] = NoEntry

----------------------------------------------------------------------------
(* The order of the repeatUntil function and the answer, checked under Spec *)

\* In the operation's calls, a call of q's handler precedes call number i.
AnsweredBefore(l, q, i) ==
  \E j \in 1..(i - 1) : l.calls[j].cb = "handler" /\ l.calls[j].q = q

(* C20: the repeatUntil function of a Question is evaluated only for       *)
(* updates that are valid answers: the update passed the Question's        *)
(* filter, and the handler was invoked for it before the function.         *)
C20_UntilAfterAnswer ==
  [][\A q \in Questions :
       last'.op = "event" =>
         \A i \in 1..Len(last'.calls) :
           (last'.calls[i].cb = "cancelRepeater" /\ last'.calls[i].q = q) =>
             /\ ~Returned(last', "filter", q, "false")
             /\ AnsweredBefore(last', q, i)]_vars

----------------------------------------------------------------------------
(* doBefore and repetitions, checked under Spec *)

(* C21: for a Question configured with repeat(n), n > 1, the doBefore is   *)
(* executed on each repetition: a Question asked once has had its doBefore *)
(* invoked at least as often as its handler (counted up to two).           *)
C21_DoBeforeEachRepetition ==
  \A q \in Questions :
    (Finite(q) /\ RepeatCount(q) > 1 /\ conf[q].doBefore /\ AskedOnce(q)) =>
      Min(2, handlerCalls[q]) <= doBeforeCalls[q]

----------------------------------------------------------------------------
(* Updates that are passed on, checked under SpecCancel *)

(* C23: when the key of an update has no entry, next() is called exactly   *)
(* once, the registry and every Question's fields are unchanged, and no    *)
(* callback is invoked, the global onCancel included, also when the update *)
(* matches the global cancel rule.                                         *)
C23_NoEntryPassThrough ==
  [][\A k \in Keys :
       (last'.op = "event" /\ last'.key = k /\ QuestionsMap[k] = NoEntry) =>
         /\ last'.nexts = 1 /\ ~last'.fault
         /\ last'.calls = <<>>
         /\ UNCHANGED <<QuestionsMap, arrays, implementedDoBefore,
                        implementedHandler, doBeforeCalls, handlerCalls>>]_vars

C23_Witness ==
  /\ last.op = "event" /\ last.len = 0 /\ last.out = "pass"
  /\ options.cancel /\ has(last.ev, options.has)
  /\ options.hears = "/cancel" /\ last.ev.text = "/cancel"
  /\ last.nexts = 1 /\ last.calls = <<>>
  /\ QuestionsMap[last.key] = NoEntry

\* The update of the step is not of a kind the pending head of k asks for.
HeadMismatch(k) ==
  /\ HeadOf(k) # NoQuestion
  /\ \A q \in Questions : HeadOf(k) = q => last'.ev.kind \notin conf[q].query

\* The global cancel rule fired in the step.
CancelFired == last'.out = "gcancel" \/ Invoked(last', "onCancel", NoQuestion)

(* C24: when an entry exists, the global cancel rule does not fire and the *)
(* update does not match the head Question's query, the update is passed   *)
(* on: the registry and every Question's fields are unchanged and no       *)
(* Question callback is invoked, also when the update matches the query of *)
(* a Question queued behind the head.                                      *)
C24_HeadMismatch ==
  [][\A k \in Keys :
       (last'.op = "event" /\ last'.key = k /\ HeadMismatch(k) /\ ~CancelFired) =>
         /\ last'.out = "pass" /\ last'.nexts = 1 /\ ~last'.fault
         /\ ~InvokedAny(last', QuestionCallbacks)
         /\ UNCHANGED <<QuestionsMap, arrays, implementedDoBefore,
                        implementedHandler, doBeforeCalls, handlerCalls>>]_vars

C24_Witness ==
  /\ last.op = "event" /\ last.out = "pass" /\ last.len = 2
  /\ last.ev.kind = "photo"
  /\ Len(QueueAfter) = 2
  /\ "photo" \notin conf[QueueAfter[1]].query
  /\ "photo" \in conf[QueueAfter[2]].query

----------------------------------------------------------------------------
(* The queue of one key, checked under SpecBuilder *)

(* C25: retiring the head Question of a key: when the queue of the key     *)
(* holds more than one Question, the entry afterwards is the queue without *)
(* its first element, in the same order; when it holds exactly one, the    *)
(* key has no entry afterwards.                                            *)
C25_Advance ==
  [][\A k \in Keys :
       (last'.op = "event" /\ last'.key = k
          /\ last'.out \in {"retired", "until"}) =>
         /\ Queue(k) # <<>>
         /\ IF Len(Queue(k)) = 1
              THEN QuestionsMap'[k] = NoEntry
              ELSE /\ QuestionsMap'[k] = QuestionsMap[k]
                   /\ Queue(k)' = Tail(Queue(k))]_vars

C25_Witness ==
  /\ last.op = "event" /\ last.out = "retired" /\ last.inner.op = "none"
  /\ last.len = 2 /\ Len(QueueAfter) = 1
  /\ \E q \in Questions : Invoked(last, "handler", q) /\ QueueAfter[1] # q

(* C26: callbacks are invoked only for the Question that is head: while an *)
(* update is processed no callback of a Question queued behind the head is *)
(* invoked, so the handlers of a list run in the order of registration.    *)
C26_HeadOnly ==
  [][\A k \in Keys :
       (last'.op = "event" /\ last'.key = k /\ last'.inner.op # "ask") =>
         \A i \in 1..Len(last'.calls) : last'.calls[i].q = HeadOf(k)]_vars

C26_Witness ==
  \E q \in Questions, p \in Questions :
    /\ last.op = "event" /\ last.out = "answered" /\ last.inner.op = "none"
    /\ p # q /\ QueueAfter = <<q, p>>
    /\ Invoked(last, "handler", q)
    /\ asked[p] = 1 /\ handlerCalls[p] = 0 /\ doBeforeCalls[p] = 0

(* C27: in every state reached by calls of ask (with one Question, with a  *)
(* non-empty array or with an empty array), updates and cancels, no key of *)
(* the registry maps to an empty queue: a key is absent or has at least    *)
(* one pending Question.                                                   *)
C27_NoEmptyQueue ==
  \A k \in Keys : QuestionsMap[k] # NoEntry => arrays[QuestionsMap[k]] # <<>>

C27_Witness ==
  /\ last.op = "ask" /\ last.inner.arg = Array(<<>>) /\ last.fault
  /\ QuestionsMap["k1"] # NoEntry /\ Len(Queue("k1")) = 1
  /\ \E q \in Questions : handlerCalls[q] > 0

----------------------------------------------------------------------------
(* The order of the decisions, checked under SpecCancelFaults *)

(* C28: when the cancel function and the repeatUntil function of the head  *)
(* Question would both return true for an update that matches the head,    *)
(* the cancel wins: the whole entry of the key is deleted, not the head    *)
(* only, and the repeatUntil function is not called.                       *)
C28_CancelBeatsUntil ==
  [][last'.op = "event" =>
       \A k \in Keys \cap {last'.key}, ev \in Events \cap {last'.ev} :
         \A cb \in {b \in Behaviours(k) : b.cancelFunc /\ b.cancelRepeater} :
           (/\ Middleware(k, ev, cb)
            /\ HeadOf(k) # NoQuestion /\ ~HeadMismatch(k) /\ ~CancelFired) =>
             /\ Returned(last', "cancelFunc", HeadOf(k), "true")
             /\ ~Invoked(last', "cancelRepeater", HeadOf(k))
             /\ QuestionsMap'[k] = NoEntry
             /\ last'.out = "qcancel"]_vars

C28_Witness ==
  \E q \in Questions :
    /\ last.op = "event" /\ last.out = "qcancel" /\ last.len = 2
    /\ conf[q].cancelFunc /\ conf[q].cancelRepeater
    /\ Returned(last, "cancelFunc", q, "true")
    /\ QuestionsMap[last.key] = NoEntry

----------------------------------------------------------------------------
(* The continuation and the global rule, checked under SpecPrecedence *)

\* The update was declined: no entry, a head that does not match, or a
\* Question filter that returned false.
Declined(k) ==
  \/ QuestionsMap[k] = NoEntry
  \/ (~CancelFired /\ HeadMismatch(k))
  \/ \E q \in Questions : Returned(last', "filter", q, "false")

Consumed == {"gcancel", "qcancel", "until", "answered", "retired"}

(* C29: for every update the continuation next is called at most once, and *)
(* it is called if and only if the update was declined (no entry for the   *)
(* key, head query mismatch, or Question filter false); it is never called *)
(* for an update that caused a global cancel, a Question cancel, a         *)
(* repeatUntil retirement or an answer.                                    *)
C29_NextOnceIffDeclined ==
  [][\A k \in Keys :
       (last'.op = "event" /\ last'.key = k) =>
         /\ last'.nexts <= 1
         /\ last'.nexts = 1 <=> Declined(k)
         /\ last'.out \in Consumed => last'.nexts = 0]_vars

C29_Witness ==
  \E q \in Questions :
    /\ last.op = "event" /\ last.out = "filtered" /\ last.len = 2
    /\ Returned(last, "filter", q, "false")
    /\ last.nexts = 1
    /\ handlerCalls[q] > 0

(* C30: when an entry is pending for the key, the global cancel rule is    *)
(* evaluated before the head Question's query: it fires, deleting the      *)
(* entry, also for updates that do not match the head; and when the rule's *)
(* has matches but its hears/filter condition fails, processing goes on    *)
(* with the head Question's query test for the same update.                *)
C30_GlobalCancelFirst ==
  [][\A k \in Keys :
       CancelConsidered(k) =>
         /\ cancelFilterCalled(last'.ev) =>
              Invoked(last', "cancel.filter", NoQuestion)
         /\ IF cancelCondition(last'.ev, FilterSaid(last', "true"))
           THEN /\ QuestionsMap'[k] = NoEntry
                /\ last'.out = "gcancel"
                /\ ~InvokedAny(last', QuestionCallbacks)
           ELSE /\ last'.out # "gcancel"
                /\ HeadMismatch(k) => (last'.out = "pass" /\ last'.nexts = 1)
                /\ ~HeadMismatch(k) =>
                     (last'.out # "pass" /\ \E i \in 1..Len(last'.calls) :
                                              last'.calls[i].q = HeadOf(k))]_vars

C30_Witness ==
  /\ last.op = "event" /\ last.out = "gcancel" /\ last.ev.kind = "photo"
  /\ FilterSaid(last, "true")
  /\ last.len = 1 /\ asked["q1"] = 1 /\ asked["q2"] = 0
  /\ "photo" \notin conf["q1"].query
  /\ QuestionsMap[last.key] = NoEntry

----------------------------------------------------------------------------
(* Updates processed at the same time, checked under SpecOverlap *)

\* A checkContext state made of a snapshot.
Load(b) ==
  [Start EXCEPT !.m = b.m, !.a = b.a, !.db = b.db, !.ih = b.ih,
                !.dbc = b.dbc, !.hc = b.hc]

\* The two updates processed one after the other, in the order given.
Serial(b, key, first, second) ==
  LET S1 == checkContext(Load(b), key, first, Quiet)
  IN checkContext(Load(Snapshot(S1)), key, second, Quiet)

\* The entry of key and the Question fields are those of S.
SameOutcome(S, key) ==
  /\ Queue(key) = (IF S.m[key] = NoEntry THEN <<>> ELSE S.a[S.m[key]])
  /\ implementedDoBefore = S.db
  /\ implementedHandler = S.ih
  /\ handlerCalls = S.hc
  /\ doBeforeCalls = [q \in Questions |-> Min(2, S.dbc[q])]

\* Two updates were in process at the same time and both calls have ended.
OverlapEnded ==
  last.op = "resume" /\ NoneInFlight /\ Len(inflight.evs) = 2

(* C22: when the processing of two updates for one key overlaps, the       *)
(* second beginning while the first is suspended at a user callback, the   *)
(* entry of the key and the Questions' counters at the end are those of    *)
(* processing the two updates one after the other in some order; so no     *)
(* Question leaves the queue without having been head, and the handler of  *)
(* a Question with a finite repeat count is not invoked more often than    *)
(* that count.                                                             *)
C22_Serializable ==
  OverlapEnded =>
    \/ SameOutcome(Serial(inflight.base, last.key,
                          inflight.evs[1], inflight.evs[2]), last.key)
    \/ SameOutcome(Serial(inflight.base, last.key,
                          inflight.evs[2], inflight.evs[1]), last.key)

----------------------------------------------------------------------------
(* The global onCancel and the entry, checked under SpecCancelFaults *)

(* C31: when the global cancel rule fires, onCancel is invoked first and    *)
(* the entry of the key is deleted after it: the entry is still present    *)
(* while onCancel executes, so an onCancel that ends by an exception, after *)
(* which no further statement of checkContext runs, leaves the entry as it *)
(* was.                                                                    *)
C31_OnCancelBeforeDelete ==
  [][\A k \in Keys :
       (/\ last'.op = "event" /\ last'.key = k /\ QuestionsMap[k] # NoEntry
        /\ Returned(last', "onCancel", NoQuestion, "throw")) =>
         /\ QuestionsMap'[k] = QuestionsMap[k]
         /\ Queue(k)' = Queue(k)]_vars

----------------------------------------------------------------------------
(* A doBefore that throws in ctx.ask, checked under SpecAskFaults *)

(* C32: when the doBefore of the first Question throws during ctx.ask for  *)
(* a key, the exception reaches the caller of ask, the entry of the key is *)
(* as it was before the call (a pending list stays pending, no entry is    *)
(* created otherwise), and the Question's implementedDoBefore is not set.  *)
C32_AskFault ==
  [][\A k \in Keys, q \in Questions :
       (/\ last'.op = "ask" /\ last'.key = k
        /\ Returned(last', "doBefore", q, "throw")) =>
         /\ last'.fault
         /\ QuestionsMap'[k] = QuestionsMap[k]
         /\ Queue(k)' = Queue(k)
         /\ implementedDoBefore'[q] = implementedDoBefore[q]
         /\ UNCHANGED <<QuestionsMap, arrays, implementedDoBefore,
                        implementedHandler, asked>>]_vars

C32_Witness ==
  \E q \in Questions :
    /\ last.op = "ask" /\ last.fault
    /\ Returned(last, "doBefore", q, "throw")
    /\ ~implementedDoBefore[q]
    /\ last.len = 2 /\ Len(QueueAfter) = 2
    /\ last.inner.list # QueueAfter

----------------------------------------------------------------------------
(* A list that is answered to its end, checked under SpecDrain *)

\* The sum of the repeat counts of the Questions that were registered.
RegisteredCount ==
  (IF asked["q1"] = 1 THEN RepeatCount("q1") ELSE 0)
    + (IF asked["q2"] = 1 THEN RepeatCount("q2") ELSE 0)

\* The step retires the head of k by its repeatUntil function, without
\* invoking the handler.
UntilRetired(k) ==
  last'.op = "event" /\ last'.key = k /\ last'.out = "until"

(* C33: for a list of fresh Questions with finite repeat counts n1..nk and *)
(* neither filter nor cancel function, registered once for a key with no   *)
(* further ask or cancel: if updates that match the head keep arriving,    *)
(* the key is eventually removed from the registry, and it is removed      *)
(* exactly by the update that is number n1+...+nk of them, every one of    *)
(* which was answered by a handler.                                        *)
C33_Drained ==
  /\ \A k \in Keys : (QuestionsMap[k] # NoEntry) ~> (QuestionsMap[k] = NoEntry)
  /\ [][\A k \in Keys :
          /\ ~UntilRetired(k)
          /\ (QuestionsMap[k] # NoEntry /\ QuestionsMap'[k] = NoEntry) =>
               Total(handlerCalls') = RegisteredCount]_vars

----------------------------------------------------------------------------
(* Two keys, checked under SpecShared *)

(* C34: processing an update for a key, be it an answer, a retirement or a *)
(* cancellation, leaves the pending queue of every other key unchanged,    *)
(* also when the same array of Questions was given to ctx.ask under both   *)
(* keys.                                                                   *)
C34_OtherKeysUntouched ==
  [][\A k \in Keys, other \in Keys :
       (last'.op = "event" /\ last'.key = k /\ other # k
          /\ last'.inner.op = "none") =>
         Queue(other)' = Queue(other)]_vars

====
